---- MODULE Spec2Model ----
(***************************************************************************)
(* Model of pdf_to_text.py: the card-number parser                         *)
(* (extract_card_numbers_from_text), the batch processor (pdf_to_text)     *)
(* and the directory watcher (PDFEventHandler, watch_directory).           *)
(*                                                                         *)
(* Python strings are sequences of one-character strings, so that          *)
(* substring search, strip, split, replace and lstrip are computed on the  *)
(* characters themselves.                                                  *)
(***************************************************************************)
EXTENDS Integers, Sequences, FiniteSets, TLC

(***************************************************************************)
(* Bounds                                                                  *)
(***************************************************************************)
\* longest text (in lines) handed to the parser
MaxLines == 4
\* file system operations the environment performs in one watch session
MaxFsOps == 3
\* most documents in the directory handed to pdf_to_text
MaxDocs == 2

(***************************************************************************)
(* String literals of the source                                           *)
(***************************************************************************)
MARKER ==
    <<"*", "*", "*", "C", "a", "r", "d", " ", "D", "e", "t", "a", "i", "l">>
W_Invoice ==
    <<"I", "n", "v", "o", "i", "c", "e">>
W_Thank ==
    <<"T", "h", "a", "n", "k">>
W_see_you ==
    <<"s", "e", "e", " ", "y", "o", "u">>
\* the words of the list ['Invoice', 'Thank', 'see you']
EndWords == {W_Invoice, W_Thank, W_see_you}
\* minimum length of the hyphen-stripped card string
MinCardLen == 8

Digits == {"0", "1", "2", "3", "4", "5", "6", "7", "8", "9"}
Whitespace == {" ", "\t", "\n"}

(***************************************************************************)
(* Input lines the texts are drawn from                                    *)
(***************************************************************************)
L_marker ==
    <<"*", "*", "*", "C", "a", "r", "d", " ", "D", "e", "t", "a", "i", "l", "(", "s", ")", "*", "*", "*">>
L_marker_invoice ==
    <<"*", "*", "*", "C", "a", "r", "d", " ", "D", "e", "t", "a", "i", "l", " ", "I", "n", "v", "o", "i", "c", "e">>
L_card_marker ==
    <<"1", "2", "3", "4", "-", "5", "6", "7", "8", " ", "*", "*", "*", "C", "a", "r", "d", " ", "D", "e", "t", "a", "i", "l">>
L_card ==
    <<"1", "2", "3", "4", "-", "5", "6", "7", "8">>
L_card_lead ==
    <<" ", " ", "0", "0", "1", "2", "-", "3", "4", "5", "6", "7", "8">>
L_card_zeros ==
    <<"0", "0", "0", "0", "-", "0", "0", "0", "0", "-", "0", "0", "0", "0", "-", "5", "6", "7", "8", " ", "m", "o", "r", "e", " ", "t", "e", "x", "t">>
L_all_zero ==
    <<"0", "0", "0", "0", "-", "0", "0", "0", "0">>
L_short ==
    <<"1", "2", "-", "3", "4", " ", "1", "2", "3", "4", "-", "5", "6", "7", "8">>
L_no_hyphen ==
    <<"1", "2", "3", "4", "5", "6", "7", "8">>
L_holder ==
    <<"C", "a", "r", "d", "-", "h", "o", "l", "d", "e", "r", " ", "1", "2">>
L_empty ==
    <<>>
L_blank ==
    <<" ", " ">>
L_underscore ==
    <<"_", "1", "2", "3", "4", "-", "5", "6", "7", "8">>
L_invoice ==
    <<"I", "n", "v", "o", "i", "c", "e", " ", "9", "9", "9", "9", "-", "0", "0", "0", "0">>
L_thank ==
    <<"T", "h", "a", "n", "k", " ", "y", "o", "u">>
L_see_you ==
    <<"w", "e", " ", "s", "e", "e", " ", "y", "o", "u", " ", "1", "1", "1", "1", "-", "2", "2", "2", "2">>

\* lines that exercise the section structure: marker, terminators, card lines
SectionLines ==
    {L_marker, L_marker_invoice, L_card_marker, L_card, L_empty, L_blank,
     L_underscore, L_invoice, L_thank, L_see_you}
\* lines that exercise the candidate check, the normalisation and the guard
TokenLines ==
    {L_marker, L_card_marker, L_card, L_card_lead, L_card_zeros, L_all_zero,
     L_short, L_no_hyphen, L_holder, L_empty}

\* every text of at most MaxLines lines over a set of lines
Texts(pool) == UNION {[1..n -> pool] : n \in 0..MaxLines}

(***************************************************************************)
(* Python string primitives                                                *)
(***************************************************************************)
\* the least element of a set of numbers
Min(S) == CHOOSE x \in S : \A y \in S : x <= y

\* sub in s
Contains(s, sub) ==
    \E k \in 0..(Len(s) - Len(sub)) : SubSeq(s, k + 1, k + Len(sub)) = sub

\* s.startswith(p)
startswith(s, p) == Len(s) >= Len(p) /\ SubSeq(s, 1, Len(p)) = p

RECURSIVE lstrip(_, _)
\* s.lstrip(chars)
lstrip(s, chars) ==
    IF s # <<>> /\ Head(s) \in chars THEN lstrip(Tail(s), chars) ELSE s

RECURSIVE rstrip(_, _)
\* s.rstrip(chars)
rstrip(s, chars) ==
    IF s # <<>> /\ s[Len(s)] \in chars
    THEN rstrip(SubSeq(s, 1, Len(s) - 1), chars) ELSE s

\* s.strip()
strip(s) == rstrip(lstrip(s, Whitespace), Whitespace)

\* s.replace(c, '') for a one-character c
replace(s, c) == SelectSeq(s, LAMBDA x : x # c)

RECURSIVE wordlen(_)
\* length of the leading run of non-whitespace characters of s
wordlen(s) ==
    IF s = <<>> \/ Head(s) \in Whitespace THEN 0 ELSE 1 + wordlen(Tail(s))

RECURSIVE split(_)
\* s.split(): the whitespace-delimited words of s
split(s) ==
    LET t == lstrip(s, Whitespace) IN
    IF t = <<>> THEN <<>>
    ELSE <<SubSeq(t, 1, wordlen(t))>> \o split(SubSeq(t, wordlen(t) + 1, Len(t)))

\* c.isdigit()
isdigit(c) == c \in Digits

(***************************************************************************)
(* State                                                                   *)
(***************************************************************************)
VARIABLES
    \* one run of the parser on one document
    lines,                \* text.splitlines() of the document being parsed
    i,                    \* index of the line the loop looks at next
    in_card_section,      \* the parser's flag
    result,               \* tokens appended so far
    ppc,                  \* "scan", "done" (returned), "raised", "written"
    unique_card_numbers,  \* what pdf_to_text writes to the output file
    \* one watch session
    watch_input,          \* what the input path is: "dir", "file", "missing"
    watchdog,             \* Observer and FileSystemEventHandler were imported
    entries,              \* names of the entries of the watched directory
    processed_files,      \* PDFEventHandler.processed_files
    observing,            \* the observer delivers events
    stop_requested,       \* observer.stop() was called
    queue,                \* events waiting for the observer thread
    mpc,                  \* position of the main thread
    pdf_files,            \* documents the start-up batch still has to handle
    opc,                  \* position of the observer thread
    ocur,                 \* src_path of the event the handler is working on
    batch_runs,           \* per name: documents begun by the start-up batch
    event_runs,           \* per name: documents begun by the event handler
    writes,               \* per name: times the output file was written
    seeded,               \* names put into processed_files by __init__
    last,                 \* the last event dispatched, and whether it triggered
    fsops,                \* file system operations done by the environment
    interrupted,          \* Ctrl+C has reached the main thread
    \* one call of pdf_to_text
    batch_input,          \* what input_path is: "dir", "pdf", "other"
    use_ocr,              \* the use_ocr argument
    pdfminer,             \* pdfminer was imported
    pytesseract,          \* pytesseract and PIL.Image were imported
    docs,                 \* the list pdf_files
    doc,                  \* index in docs of the document being handled
    text,                 \* the text extracted so far for that document
    calls,                \* the strategies invoked for that document, in order
    bpc,                  \* position in pdf_to_text
    outputs,              \* per document: the lines of its output file
    failed                \* the documents whose handling raised

parserVars == <<lines, i, in_card_section, result, ppc, unique_card_numbers>>
watchVars ==
    <<watch_input, watchdog, entries, processed_files, observing,
      stop_requested, queue, mpc, pdf_files, opc, ocur, batch_runs,
      event_runs, writes, seeded, last, fsops, interrupted>>
batchVars ==
    <<batch_input, use_ocr, pdfminer, pytesseract, docs, doc, text, calls,
      bpc, outputs, failed>>
vars == <<parserVars, watchVars, batchVars>>
nonParserVars == <<watchVars, batchVars>>
nonWatchVars == <<parserVars, batchVars>>
nonBatchVars == <<parserVars, watchVars>>

(***************************************************************************)
(* extract_card_numbers_from_text                                          *)
(***************************************************************************)
\* a marker test that looks for the word "Card" only
HasMarker_CardOnly(line) == Contains(line, <<"C", "a", "r", "d">>)

\* '***Card Detail' in line
HasMarker(line) == Contains(line, MARKER)

\* an end-of-section test that compares the line itself with ''
IsSectionEnd_NoStrip(line) ==
    \/ line = <<>>
    \/ startswith(line, <<"_">>)
    \/ \E w \in EndWords : Contains(line, w)

\* the end-of-section test
IsSectionEnd(line) ==
    \/ strip(line) = <<>>
    \/ startswith(line, <<"_">>)
    \/ \E w \in EndWords : Contains(line, w)

\* a card number format test that asks for a digit only
IsCardFormat_DigitsOnly(line) == \E k \in 1..Len(line) : isdigit(line[k])

\* the card number format test
IsCardFormat(line) ==
    /\ \E k \in 1..Len(line) : isdigit(line[k])
    /\ Contains(line, <<"-">>)

\* card.replace('-', '').lstrip('0')
CleanCard(card) == lstrip(replace(card, "-"), {"0"})

\* a length guard applied to the zero-stripped card
LongEnough_Clean(card) == Len(CleanCard(card)) >= MinCardLen

\* len(card.replace('-', '')) >= 8
LongEnough(card) == Len(replace(card, "-")) >= MinCardLen

\* a deduplication that keeps the last occurrence of each token
RECURSIVE DictFromKeys_KeepLast(_)
DictFromKeys_KeepLast(s) ==
    IF s = <<>> THEN <<>>
    ELSE LET rest == DictFromKeys_KeepLast(Tail(s))
         IN IF \E k \in 1..Len(rest) : rest[k] = Head(s)
            THEN rest ELSE <<Head(s)>> \o rest

\* a deduplication that leaves out empty tokens
RECURSIVE DictFromKeys_DropEmpty(_)
DictFromKeys_DropEmpty(s) ==
    IF s = <<>> THEN <<>>
    ELSE LET init == DictFromKeys_DropEmpty(SubSeq(s, 1, Len(s) - 1))
             key == s[Len(s)]
         IN IF key = <<>> \/ \E k \in 1..Len(init) : init[k] = key
            THEN init ELSE Append(init, key)

\* list(dict.fromkeys(s)): first occurrences, in order
RECURSIVE DictFromKeys(_)
DictFromKeys(s) ==
    IF s = <<>> THEN <<>>
    ELSE LET init == DictFromKeys(SubSeq(s, 1, Len(s) - 1))
             key == s[Len(s)]
         IN IF \E k \in 1..Len(init) : init[k] = key
            THEN init ELSE Append(init, key)

\* a loop body that looks for the end of the section before the marker
LoopBody_EndFirst(line, in_sec, res) ==
    IF in_sec /\ IsSectionEnd(line)
    THEN [in_card_section |-> in_sec, result |-> res, ctl |-> "break"]
    ELSE IF HasMarker(line)
    THEN [in_card_section |-> TRUE, result |-> res, ctl |-> "next"]
    ELSE IF ~in_sec \/ ~IsCardFormat(line)
    THEN [in_card_section |-> in_sec, result |-> res, ctl |-> "next"]
    ELSE LET card == split(line)[1] IN
         [in_card_section |-> in_sec,
          result |-> IF LongEnough(card)
                     THEN Append(res, CleanCard(card)) ELSE res,
          ctl |-> "next"]

\* the body of "for i, line in enumerate(lines)" for one line: the flag and
\* the result after it, and how the loop goes on ("next", "break", "raise")
LoopBody(line, in_sec, res) ==
    IF HasMarker(line)
    THEN [in_card_section |-> TRUE, result |-> res, ctl |-> "next"]
    ELSE IF ~in_sec
    THEN [in_card_section |-> in_sec, result |-> res, ctl |-> "next"]
    ELSE IF IsSectionEnd(line)
    THEN [in_card_section |-> in_sec, result |-> res, ctl |-> "break"]
    ELSE IF ~IsCardFormat(line)
    THEN [in_card_section |-> in_sec, result |-> res, ctl |-> "next"]
    ELSE IF split(line) = <<>>
    THEN [in_card_section |-> in_sec, result |-> res, ctl |-> "raise"]
    ELSE LET card == split(line)[1] IN
         [in_card_section |-> in_sec,
          result |-> IF LongEnough(card)
                     THEN Append(res, CleanCard(card)) ELSE res,
          ctl |-> "next"]

\* one iteration of the loop
ScanLine ==
    /\ ppc = "scan"
    /\ i <= Len(lines)
    /\ LET after == LoopBody(lines[i], in_card_section, result) IN
       /\ in_card_section' = after.in_card_section
       /\ result' = after.result
       /\ i' = IF after.ctl = "next" THEN i + 1 ELSE i
       /\ ppc' = CASE after.ctl = "next" -> "scan"
                   [] after.ctl = "break" -> "done"
                   [] after.ctl = "raise" -> "raised"
    /\ UNCHANGED <<lines, unique_card_numbers, nonParserVars>>

\* the loop is exhausted: return result
ScanEnd ==
    /\ ppc = "scan"
    /\ i > Len(lines)
    /\ ppc' = "done"
    /\ UNCHANGED <<lines, i, in_card_section, result, unique_card_numbers>>
    /\ UNCHANGED nonParserVars

\* pdf_to_text: deduplicate and write the tokens one per line
WriteTokens ==
    /\ ppc = "done"
    /\ unique_card_numbers' = DictFromKeys(result)
    /\ ppc' = "written"
    /\ UNCHANGED <<lines, i, in_card_section, result, nonParserVars>>

\* the parser at position pc of a text drawn from a set of texts, with
\* nothing scanned yet
ParserInit(texts, pc) ==
    /\ lines \in texts
    /\ i = 1
    /\ in_card_section = FALSE
    /\ result = <<>>
    /\ ppc = pc
    /\ unique_card_numbers = <<>>

NextParser == ScanLine \/ ScanEnd \/ WriteTokens

(***************************************************************************)
(* The watched directory and its events                                    *)
(***************************************************************************)
N_a ==
    <<"a", ".", "p", "d", "f">>
N_b ==
    <<"b", ".", "p", "d", "f">>
N_txt ==
    <<"n", ".", "t", "x", "t">>
\* a sub-directory whose name ends in ".pdf"
N_dir ==
    <<"d", ".", "p", "d", "f">>
EntryNames == {N_a, N_b, N_txt, N_dir}
IsDirectory(n) == n = N_dir

PDF_SUFFIX ==
    <<".", "p", "d", "f">>
\* the directory being watched (the default input path)
WatchDir ==
    <<"p", "d", "f", "s">>

\* s.endswith(suf)
endswith(s, suf) ==
    Len(s) >= Len(suf) /\ SubSeq(s, Len(s) - Len(suf) + 1, Len(s)) = suf

\* the path of an entry of the watched directory
SrcPath(n) == WatchDir \o <<"/">> \o n

RECURSIVE PathName(_)
\* Path(p).name: what follows the last "/"
PathName(p) ==
    IF \E k \in 1..Len(p) : p[k] = "/" THEN PathName(Tail(p)) ELSE p

\* pdf_dir.glob("*.pdf") on a set of entries
Glob(es) == {n \in es : endswith(n, PDF_SUFFIX)}

\* the orders in which a set of names can be listed
Orderings(S) ==
    {q \in [1..Cardinality(S) -> S] : \A a, b \in 1..Cardinality(S) :
                                          a # b => q[a] # q[b]}

Event(type, n) ==
    [event_type |-> type, src_path |-> SrcPath(n), is_directory |-> IsDirectory(n)]

NoEvent ==
    [event |-> [event_type |-> "none", src_path |-> <<>>, is_directory |-> FALSE],
     triggered |-> FALSE]

Zero == [n \in EntryNames |-> 0]
Incr(f, n) == [f EXCEPT ![n] = @ + 1]

(***************************************************************************)
(* main and watch_directory: the main thread                               *)
(***************************************************************************)
\* the module is loaded without watchdog: FileSystemEventHandler is None, and
\* "class PDFEventHandler(FileSystemEventHandler)" raises TypeError
Import_Raises ==
    /\ mpc = "main"
    /\ ~watchdog
    /\ mpc' = "crashed"
    /\ UNCHANGED <<watch_input, watchdog, entries, processed_files, observing,
                   stop_requested, queue, pdf_files, opc, ocur, batch_runs,
                   event_runs, writes, seeded, last, fsops, interrupted,
                   nonWatchVars>>

\* watch mode refuses to start: the input is a file (main) or the directory
\* does not exist (watch_directory); the test of Observer is passed, as the
\* module would not have loaded without watchdog
Main_Refuse ==
    /\ mpc = "main"
    /\ watchdog
    /\ watch_input # "dir"
    /\ mpc' = "returned"
    /\ UNCHANGED <<watch_input, watchdog, entries, processed_files, observing,
                   stop_requested, queue, pdf_files, opc, ocur, batch_runs,
                   event_runs, writes, seeded, last, fsops, interrupted,
                   nonWatchVars>>

\* PDFEventHandler(pdf_dir, output_dir): processed_files starts as the names
\* of the *.pdf entries present; then the handler is scheduled
Main_Construct ==
    /\ mpc = "main"
    /\ watch_input = "dir"
    /\ watchdog
    /\ processed_files' = Glob(entries)
    /\ seeded' = Glob(entries)
    /\ mpc' = "start"
    /\ UNCHANGED <<watch_input, watchdog, entries, observing, stop_requested,
                   queue, pdf_files, opc, ocur, batch_runs, event_runs, writes,
                   last, fsops, interrupted,
                   nonWatchVars>>

\* observer.start()
Main_Start ==
    /\ mpc = "start"
    /\ observing' = TRUE
    /\ mpc' = "glob"
    /\ UNCHANGED <<watch_input, watchdog, entries, processed_files,
                   stop_requested, queue, pdf_files, opc, ocur, batch_runs,
                   event_runs, writes, seeded, last, fsops, interrupted,
                   nonWatchVars>>

\* pdf_to_text(pdf_dir, output_dir): list the *.pdf entries, in any order
Main_Glob ==
    /\ mpc = "glob"
    /\ pdf_files' \in Orderings(Glob(entries))
    /\ mpc' = "batch"
    /\ UNCHANGED <<watch_input, watchdog, entries, processed_files, observing,
                   stop_requested, queue, opc, ocur, batch_runs, event_runs,
                   writes, seeded, last, fsops, interrupted,
                   nonWatchVars>>

\* the batch starts on its next document
Main_BeginDoc ==
    /\ mpc = "batch"
    /\ pdf_files # <<>>
    /\ batch_runs' = Incr(batch_runs, Head(pdf_files))
    /\ mpc' = "extract"
    /\ UNCHANGED <<watch_input, watchdog, entries, processed_files, observing,
                   stop_requested, queue, pdf_files, opc, ocur, event_runs,
                   writes, seeded, last, fsops, interrupted,
                   nonWatchVars>>

\* the document is extracted and parsed and its output file written
Main_FinishDoc ==
    /\ mpc = "extract"
    /\ writes' = Incr(writes, Head(pdf_files))
    /\ pdf_files' = Tail(pdf_files)
    /\ mpc' = "batch"
    /\ UNCHANGED <<watch_input, watchdog, entries, processed_files, observing,
                   stop_requested, queue, opc, ocur, batch_runs, event_runs,
                   seeded, last, fsops, interrupted,
                   nonWatchVars>>

\* the OCR step or the write raises: the exception leaves pdf_to_text and is
\* caught by "except Exception", which stops the observer
Main_DocRaises ==
    /\ mpc = "extract"
    /\ stop_requested' = TRUE
    /\ observing' = FALSE
    /\ mpc' = "join"
    /\ UNCHANGED <<watch_input, watchdog, entries, processed_files, queue,
                   pdf_files, opc, ocur, batch_runs, event_runs, writes,
                   seeded, last, fsops, interrupted,
                   nonWatchVars>>

\* the batch is through: "while True: time.sleep(1)"
Main_BatchDone ==
    /\ mpc = "batch"
    /\ pdf_files = <<>>
    /\ mpc' = "loop"
    /\ UNCHANGED <<watch_input, watchdog, entries, processed_files, observing,
                   stop_requested, queue, pdf_files, opc, ocur, batch_runs,
                   event_runs, writes, seeded, last, fsops, interrupted,
                   nonWatchVars>>

\* Ctrl+C inside the try block: whatever the main thread was doing is
\* abandoned, and observer.stop() is called
KeyboardInterrupt ==
    /\ mpc \in {"glob", "batch", "extract", "loop"}
    /\ interrupted' = TRUE
    /\ stop_requested' = TRUE
    /\ observing' = FALSE
    /\ mpc' = "join"
    /\ UNCHANGED <<watch_input, watchdog, entries, processed_files, queue,
                   pdf_files, opc, ocur, batch_runs, event_runs, writes,
                   seeded, last, fsops, nonWatchVars>>

\* observer.join() returns once the observer thread has ended
Main_Join ==
    /\ mpc = "join"
    /\ opc = "exited"
    /\ mpc' = "stopped"
    /\ UNCHANGED <<watch_input, watchdog, entries, processed_files, observing,
                   stop_requested, queue, pdf_files, opc, ocur, batch_runs,
                   event_runs, writes, seeded, last, fsops, interrupted,
                   nonWatchVars>>

(***************************************************************************)
(* PDFEventHandler: the observer thread                                    *)
(***************************************************************************)
\* an event test that does not look at is_directory
IsPdfEvent_NoDirCheck(e) == endswith(e.src_path, PDF_SUFFIX)

\* not event.is_directory and event.src_path.endswith('.pdf')
IsPdfEvent(e) == ~e.is_directory /\ endswith(e.src_path, PDF_SUFFIX)

\* on_created goes on to process the file
OnCreatedTriggers(e) == IsPdfEvent(e)

\* an on_modified that does not look at processed_files
OnModifiedTriggers_NoGuard(e, processed) == IsPdfEvent(e)

\* on_modified hands the event to on_created
OnModifiedTriggers(e, processed) ==
    IsPdfEvent(e) /\ PathName(e.src_path) \notin processed

\* the observer thread can take the next event, of the given type
CanDispatch(type) ==
    /\ opc = "idle"
    /\ ~stop_requested
    /\ queue # <<>>
    /\ Head(queue).event_type = type

\* the observer thread calls on_created with the next event: up to the settle
\* delay if the event is for a PDF file, to its return if not
on_created ==
    /\ CanDispatch("created")
    /\ LET e == Head(queue)
           triggers == OnCreatedTriggers(e)
       IN /\ opc' = IF triggers THEN "settle" ELSE "idle"
          /\ ocur' = IF triggers THEN e.src_path ELSE ocur
          /\ last' = [event |-> e, triggered |-> triggers]
    /\ queue' = Tail(queue)
    /\ UNCHANGED <<watch_input, watchdog, entries, processed_files, observing,
                   stop_requested, mpc, pdf_files, batch_runs, event_runs,
                   writes, seeded, fsops, interrupted,
                   nonWatchVars>>

\* the observer thread calls on_modified with the next event: it goes into
\* on_created (up to the settle delay) only for a PDF file whose name is not
\* in processed_files
on_modified ==
    /\ CanDispatch("modified")
    /\ LET e == Head(queue)
           triggers == OnModifiedTriggers(e, processed_files)
       IN /\ opc' = IF triggers THEN "settle" ELSE "idle"
          /\ ocur' = IF triggers THEN e.src_path ELSE ocur
          /\ last' = [event |-> e, triggered |-> triggers]
    /\ queue' = Tail(queue)
    /\ UNCHANGED <<watch_input, watchdog, entries, processed_files, observing,
                   stop_requested, mpc, pdf_files, batch_runs, event_runs,
                   writes, seeded, fsops, interrupted,
                   nonWatchVars>>

\* after time.sleep(1): pdf_to_text(pdf_path, output_dir) resolves its input;
\* a path that is no longer a file raises ValueError, caught by on_created
Obs_BeginDoc ==
    /\ opc = "settle"
    /\ IF PathName(ocur) \in entries /\ ~IsDirectory(PathName(ocur))
       THEN /\ event_runs' = Incr(event_runs, PathName(ocur))
            /\ opc' = "extract"
       ELSE /\ opc' = "idle"
            /\ UNCHANGED event_runs
    /\ UNCHANGED <<watch_input, watchdog, entries, processed_files, observing,
                   stop_requested, queue, mpc, pdf_files, ocur, batch_runs,
                   writes, seeded, last, fsops, interrupted,
                   nonWatchVars>>

\* a handler that assigns the name instead of adding it
Obs_FinishDoc_Overwrites ==
    /\ opc = "extract"
    /\ writes' = Incr(writes, PathName(ocur))
    /\ processed_files' = {PathName(ocur)}
    /\ opc' = "idle"
    /\ UNCHANGED <<watch_input, watchdog, entries, observing, stop_requested,
                   queue, mpc, pdf_files, ocur, batch_runs, event_runs,
                   seeded, last, fsops, interrupted, nonWatchVars>>

\* pdf_to_text returns: the output file is written and the name recorded
Obs_FinishDoc ==
    /\ opc = "extract"
    /\ writes' = Incr(writes, PathName(ocur))
    /\ processed_files' = processed_files \cup {PathName(ocur)}
    /\ opc' = "idle"
    /\ UNCHANGED <<watch_input, watchdog, entries, observing, stop_requested,
                   queue, mpc, pdf_files, ocur, batch_runs, event_runs,
                   seeded, last, fsops, interrupted,
                   nonWatchVars>>

\* a handler that records the name in a finally clause
Obs_DocRaises_Records ==
    /\ opc = "extract"
    /\ processed_files' = processed_files \cup {PathName(ocur)}
    /\ opc' = "idle"
    /\ UNCHANGED <<watch_input, watchdog, entries, observing, stop_requested,
                   queue, mpc, pdf_files, ocur, batch_runs, event_runs, writes,
                   seeded, last, fsops, interrupted, nonWatchVars>>

\* pdf_to_text raises: on_created prints the error, the name is not recorded
Obs_DocRaises ==
    /\ opc = "extract"
    /\ opc' = "idle"
    /\ UNCHANGED <<watch_input, watchdog, entries, processed_files, observing,
                   stop_requested, queue, mpc, pdf_files, ocur, batch_runs,
                   event_runs, writes, seeded, last, fsops, interrupted,
                   nonWatchVars>>

\* after observer.stop() the observer thread ends when its handler returned
Obs_Exit ==
    /\ opc = "idle"
    /\ stop_requested
    /\ opc' = "exited"
    /\ UNCHANGED <<watch_input, watchdog, entries, processed_files, observing,
                   stop_requested, queue, mpc, pdf_files, ocur, batch_runs,
                   event_runs, writes, seeded, last, fsops, interrupted,
                   nonWatchVars>>

(***************************************************************************)
(* The file system: entries appear, change and disappear                   *)
(***************************************************************************)
\* the observer reports an event while it is running
Emit(type, n) ==
    queue' = IF observing THEN Append(queue, Event(type, n)) ELSE queue

SessionRunning == mpc \in {"start", "glob", "batch", "extract", "loop"}

Fs_Create ==
    \E n \in EntryNames \ entries :
        /\ SessionRunning
        /\ fsops < MaxFsOps
        /\ fsops' = fsops + 1
        /\ entries' = entries \cup {n}
        /\ Emit("created", n)
        /\ UNCHANGED <<watch_input, watchdog, processed_files, observing,
                       stop_requested, mpc, pdf_files, opc, ocur, batch_runs,
                       event_runs, writes, seeded, last, interrupted,
                   nonWatchVars>>

Fs_Modify ==
    \E n \in entries :
        /\ SessionRunning
        /\ observing
        /\ fsops < MaxFsOps
        /\ fsops' = fsops + 1
        /\ Emit("modified", n)
        /\ UNCHANGED <<watch_input, watchdog, entries, processed_files,
                       observing, stop_requested, mpc, pdf_files, opc, ocur,
                       batch_runs, event_runs, writes, seeded, last,
                       interrupted,
                   nonWatchVars>>

Fs_Remove ==
    \E n \in entries :
        /\ SessionRunning
        /\ fsops < MaxFsOps
        /\ fsops' = fsops + 1
        /\ entries' = entries \ {n}
        /\ UNCHANGED <<watch_input, watchdog, processed_files, observing,
                       stop_requested, queue, mpc, pdf_files, opc, ocur,
                       batch_runs, event_runs, writes, seeded, last,
                       interrupted,
                   nonWatchVars>>

\* a watch session at position pc of the main thread with nothing done yet:
\* "main" is the entry of main(), "returned" is a session that is over
WatchInit(inputs, toolchain, pc) ==
    /\ watch_input \in inputs
    /\ watchdog \in toolchain
    /\ entries \in (IF watch_input = "dir" /\ pc = "main"
                    THEN SUBSET {N_a, N_b} ELSE {{}})
    /\ processed_files = {}
    /\ observing = FALSE
    /\ stop_requested = FALSE
    /\ queue = <<>>
    /\ mpc = pc
    /\ pdf_files = <<>>
    /\ opc = "idle"
    /\ ocur = <<>>
    /\ batch_runs = Zero
    /\ event_runs = Zero
    /\ writes = Zero
    /\ seeded = {}
    /\ last = NoEvent
    /\ fsops = 0
    /\ interrupted = FALSE

NextWatch ==
    \/ Import_Raises \/ Main_Refuse \/ Main_Construct \/ Main_Start \/ Main_Glob
    \/ Main_BeginDoc \/ Main_FinishDoc \/ Main_DocRaises \/ Main_BatchDone
    \/ KeyboardInterrupt \/ Main_Join
    \/ on_created \/ on_modified
    \/ Obs_BeginDoc \/ Obs_FinishDoc \/ Obs_DocRaises \/ Obs_Exit
    \/ Fs_Create \/ Fs_Modify \/ Fs_Remove


(***************************************************************************)
(* pdf_to_text: one batch                                                  *)
(***************************************************************************)
RECURSIVE Join(_)
\* "\n".join(ls)
Join(ls) ==
    IF ls = <<>> THEN <<>>
    ELSE IF Len(ls) = 1 THEN ls[1]
    ELSE ls[1] \o <<"\n">> \o Join(Tail(ls))

RECURSIVE splitlines(_)
\* t.splitlines(): the lines of t, without their line ends
splitlines(t) ==
    IF t = <<>> THEN <<>>
    ELSE IF \E k \in 1..Len(t) : t[k] = "\n"
    THEN LET n == Min({k \in 1..Len(t) : t[k] = "\n"})
         IN <<SubSeq(t, 1, n - 1)>> \o splitlines(SubSeq(t, n + 1, Len(t)))
    ELSE <<t>>

RECURSIVE ScanFrom(_, _, _, _)
\* the loop of the parser from line j on
ScanFrom(ls, j, in_sec, res) ==
    IF j > Len(ls) THEN res
    ELSE LET after == LoopBody(ls[j], in_sec, res)
         IN IF after.ctl = "next"
            THEN ScanFrom(ls, j + 1, after.in_card_section, after.result)
            ELSE after.result

\* extract_card_numbers_from_text(t)
extract_card_numbers_from_text(t) == ScanFrom(splitlines(t), 1, FALSE, <<>>)

\* not text.strip()
IsBlank(t) == strip(t) = <<>>

\* what a strategy can return: nothing, white space, a card section
StrategyTexts ==
    {<<>>,
     Join(<<L_blank, L_empty>>),
     Join(<<L_marker, L_card, L_card_zeros, L_card, L_empty>>)}

\* a strategy returns a text or raises
Outcomes ==
    {[raised |-> FALSE, text |-> t] : t \in StrategyTexts}
        \cup {[raised |-> TRUE, text |-> <<>>]}

\* an output file that does not exist, and one holding a list of tokens
NoFile == [exists |-> FALSE, tokens |-> <<>>]
File(tokens) == [exists |-> TRUE, tokens |-> tokens]

\* input_path.is_dir()
IsDirInput(kind) == kind = "dir"

\* a file test that forgets the suffix
IsPdfFileInput_AnyFile(kind) == kind \in {"pdf", "other"}

\* input_path.is_file() and input_path.suffix.lower() == ".pdf"
IsPdfFileInput(kind) == kind = "pdf"

\* input_path is neither a directory nor a PDF file: ValueError
B_Invalid ==
    /\ bpc = "resolve"
    /\ ~IsDirInput(batch_input)
    /\ ~IsPdfFileInput(batch_input)
    /\ bpc' = "invalid"
    /\ UNCHANGED <<batch_input, use_ocr, pdfminer, pytesseract, docs, doc,
                   text, calls, outputs, failed, nonBatchVars>>

\* input_path is a directory (its *.pdf entries) or one PDF file
B_Resolve ==
    /\ bpc = "resolve"
    /\ (IsDirInput(batch_input) \/ IsPdfFileInput(batch_input))
    /\ \E n \in (IF IsDirInput(batch_input) THEN 0..MaxDocs ELSE {1}) :
          /\ docs' = [d \in 1..n |-> d]
          /\ bpc' = IF n = 0 THEN "returned" ELSE "primary"
    /\ doc' = 1
    /\ UNCHANGED <<batch_input, use_ocr, pdfminer, pytesseract, text, calls,
                   outputs, failed, nonBatchVars>>

\* text = ""; try: text = extract_with_pymupdf(pdf_file); an exception is
\* caught and leaves text empty
B_Primary ==
    /\ bpc = "primary"
    /\ \E o \in Outcomes :
          /\ text' = IF o.raised THEN <<>> ELSE o.text
          /\ bpc' = IF (o.raised \/ IsBlank(o.text)) /\ pdfminer
                    THEN "secondary" ELSE "ocr"
    /\ calls' = <<"pymupdf">>
    /\ UNCHANGED <<batch_input, use_ocr, pdfminer, pytesseract, docs, doc,
                   outputs, failed, nonBatchVars>>

\* text = extract_with_pdfminer(pdf_file), which returns "" when it fails
B_Secondary ==
    /\ bpc = "secondary"
    /\ \E o \in Outcomes : text' = IF o.raised THEN <<>> ELSE o.text
    /\ calls' = Append(calls, "pdfminer")
    /\ bpc' = "ocr"
    /\ UNCHANGED <<batch_input, use_ocr, pdfminer, pytesseract, docs, doc,
                   outputs, failed, nonBatchVars>>

\* an OCR condition that does not look at the text
OcrWanted_AnyText == use_ocr /\ pytesseract

\* use_ocr and (not text.strip()) and pytesseract and Image
OcrWanted == use_ocr /\ IsBlank(text) /\ pytesseract

\* text = extract_with_ocr(pdf_file); an exception of fitz.open, get_pixmap
\* or image_to_string is caught by nothing in pdf_to_text
B_Ocr ==
    /\ bpc = "ocr"
    /\ OcrWanted
    /\ calls' = Append(calls, "ocr")
    /\ \E o \in Outcomes :
          IF o.raised
          THEN /\ bpc' = "aborted"
               /\ failed' = failed \cup {docs[doc]}
               /\ UNCHANGED text
          ELSE /\ bpc' = "write"
               /\ text' = o.text
               /\ UNCHANGED failed
    /\ UNCHANGED <<batch_input, use_ocr, pdfminer, pytesseract, docs, doc,
                   outputs, nonBatchVars>>

\* the OCR condition is false
B_SkipOcr ==
    /\ bpc = "ocr"
    /\ ~OcrWanted
    /\ bpc' = "write"
    /\ UNCHANGED <<batch_input, use_ocr, pdfminer, pytesseract, docs, doc,
                   text, calls, outputs, failed, nonBatchVars>>

\* parse, deduplicate, write the output file, go to the next document
B_Write ==
    /\ bpc = "write"
    /\ outputs' = [outputs EXCEPT ![docs[doc]] =
                     File(DictFromKeys(extract_card_numbers_from_text(text)))]
    /\ doc' = doc + 1
    /\ bpc' = IF doc = Len(docs) THEN "returned" ELSE "primary"
    /\ UNCHANGED <<batch_input, use_ocr, pdfminer, pytesseract, docs, text,
                   calls, failed, nonBatchVars>>

\* open(out_path, "w") or f.write raises
B_WriteRaises ==
    /\ bpc = "write"
    /\ bpc' = "aborted"
    /\ failed' = failed \cup {docs[doc]}
    /\ UNCHANGED <<batch_input, use_ocr, pdfminer, pytesseract, docs, doc,
                   text, calls, outputs, nonBatchVars>>

\* a call of pdf_to_text at position pc with nothing done yet: "resolve" is
\* its entry, "returned" is a call that is over
BatchInit(inputs, flags, pc) ==
    /\ batch_input \in inputs
    /\ use_ocr \in flags
    /\ pdfminer \in flags
    /\ pytesseract \in flags
    /\ docs = <<>>
    /\ doc = 1
    /\ text = <<>>
    /\ calls = <<>>
    /\ bpc = pc
    /\ outputs = [d \in 1..MaxDocs |-> NoFile]
    /\ failed = {}

NextBatch ==
    \/ B_Invalid \/ B_Resolve \/ B_Primary \/ B_Secondary
    \/ B_Ocr \/ B_SkipOcr \/ B_Write \/ B_WriteRaises

(***************************************************************************)
(* Specifications                                                          *)
(***************************************************************************)
\* the parser on every text over the section lines
InitSection ==
    /\ ParserInit(Texts(SectionLines), "scan")
    /\ WatchInit({"dir"}, {TRUE}, "returned")
    /\ BatchInit({"dir"}, {TRUE}, "returned")
SpecSection == InitSection /\ [][NextParser]_vars

\* the parser on every text over the token lines
InitTokens ==
    /\ ParserInit(Texts(TokenLines), "scan")
    /\ WatchInit({"dir"}, {TRUE}, "returned")
    /\ BatchInit({"dir"}, {TRUE}, "returned")
SpecTokens == InitTokens /\ [][NextParser]_vars

\* one watch session, from main() on
InitWatch ==
    /\ ParserInit({<<>>}, "written")
    /\ WatchInit({"dir", "file", "missing"}, BOOLEAN, "main")
    /\ BatchInit({"dir"}, {TRUE}, "returned")
SpecWatch == InitWatch /\ [][NextWatch]_vars

\* one call of pdf_to_text
InitBatch ==
    /\ ParserInit({<<>>}, "written")
    /\ WatchInit({"dir"}, {TRUE}, "returned")
    /\ BatchInit({"dir", "pdf", "other"}, BOOLEAN, "resolve")
SpecBatch == InitBatch /\ [][NextBatch]_vars

(***************************************************************************)
(* Vocabulary of the properties, stated on the characters of a line        *)
(***************************************************************************)
\* the line is empty or consists of whitespace only
BlankLine(line) == \A k \in 1..Len(line) : line[k] \in Whitespace

\* the line is a terminator: blank, or starting with an underscore, or
\* containing "Invoice", "Thank" or "see you"
TerminatorLine(line) ==
    \/ BlankLine(line)
    \/ (Len(line) >= 1 /\ line[1] = "_")
    \/ Contains(line, W_Invoice)
    \/ Contains(line, W_Thank)
    \/ Contains(line, W_see_you)

\* the line contains a digit and a hyphen
DigitAndHyphen(line) ==
    /\ \E k \in 1..Len(line) : line[k] \in Digits
    /\ \E k \in 1..Len(line) : line[k] = "-"

\* the first whitespace-delimited word of a line that is not blank
FirstWord(line) ==
    LET a == Min({k \in 1..Len(line) : line[k] \notin Whitespace})
        b == Min({k \in a..Len(line) :
                    k = Len(line) \/ line[k + 1] \in Whitespace})
    IN SubSeq(line, a, b)

\* a word without its hyphens
WithoutHyphens(w) == SelectSeq(w, LAMBDA c : c # "-")

\* a word without its leading '0' characters
WithoutLeadingZeros(w) ==
    LET nz == {k \in 1..Len(w) : w[k] # "0"}
    IN IF nz = {} THEN <<>> ELSE SubSeq(w, Min(nz), Len(w))

\* no line of the text contains the marker
NoMarkerInText == \A k \in 1..Len(lines) : ~Contains(lines[k], MARKER)

\* the parser is about to look at an in-section line
AtInSectionLine == ppc = "scan" /\ i <= Len(lines) /\ in_card_section

\* the parser has stopped scanning
Stopped == ppc \in {"done", "written"}

\* the index of the first occurrence of x in s
FirstIndex(s, x) == Min({k \in 1..Len(s) : s[k] = x})

(***************************************************************************)
(* C6                                                                      *)
(***************************************************************************)
\* C6: for a text in which no line contains the marker, the parser returns
\* the empty list and raises no error (and so the written list is empty).
C6_NoMarkerEmpty ==
    NoMarkerInText =>
        /\ result = <<>>
        /\ ppc # "raised"
        /\ unique_card_numbers = <<>>

\* a marker-free text with a well-formed card line has been parsed to the end
C6_Witness ==
    /\ ppc = "written"
    /\ NoMarkerInText
    /\ \E k \in 1..Len(lines) : lines[k] = L_card_zeros
    /\ \E k \in 1..Len(lines) : lines[k] = L_holder

(***************************************************************************)
(* C7                                                                      *)
(***************************************************************************)
\* once scanning has stopped, the result never changes and scanning never
\* resumes
StoppedForGood == Stopped => (result' = result /\ Stopped')

\* C7 as stated: an in-section line that is a terminator (blank, underscore
\* first, or containing "Invoice", "Thank" or "see you") stops the scan for
\* good and contributes nothing, and nothing is contributed afterwards.
C7_Stated ==
    [][ /\ (AtInSectionLine /\ TerminatorLine(lines[i]))
            => (Stopped' /\ result' = result)
        /\ StoppedForGood ]_vars

\* C7 amended: the same for a terminator line that does not contain the
\* marker substring.
C7_Termination ==
    [][ /\ (AtInSectionLine /\ TerminatorLine(lines[i])
              /\ ~Contains(lines[i], MARKER))
            => (Stopped' /\ result' = result)
        /\ StoppedForGood ]_vars

\* the scan stopped at a whitespace-only line that is followed by a marker
\* line and a card line, and nothing of them has been contributed or written
C7_Witness ==
    /\ ppc = "written"
    /\ i < Len(lines) - 1
    /\ lines[i] = L_blank
    /\ Contains(lines[i + 1], MARKER)
    /\ lines[i + 2] = L_card
    /\ result = <<>>
    /\ unique_card_numbers = <<>>

(***************************************************************************)
(* C8                                                                      *)
(***************************************************************************)
\* C8: the written token list has no duplicates, holds exactly the tokens the
\* parser returned, and lists them in the order of their first occurrence.
C8_UniqueFirstSeen ==
    ppc = "written" =>
        LET u == unique_card_numbers IN
        /\ \A a, b \in 1..Len(u) : a # b => u[a] # u[b]
        /\ {u[k] : k \in 1..Len(u)} = {result[k] : k \in 1..Len(result)}
        /\ \A a, b \in 1..Len(u) :
              a < b => FirstIndex(result, u[a]) < FirstIndex(result, u[b])

\* the parser returned [x, y, x] and [x, y] was written
C8_Witness ==
    /\ ppc = "written"
    /\ Len(result) = 3
    /\ result[1] = result[3]
    /\ result[1] # result[2]
    /\ unique_card_numbers = <<result[1], result[2]>>

(***************************************************************************)
(* C9                                                                      *)
(***************************************************************************)
\* what the claim says a qualifying line contributes
Contribution(line) ==
    IF Len(WithoutHyphens(FirstWord(line))) >= 8
    THEN <<WithoutLeadingZeros(WithoutHyphens(FirstWord(line)))>>
    ELSE <<>>

\* C9 as stated: every in-section, non-terminating line with a digit and a
\* hyphen contributes its normalised first word iff the hyphen-stripped first
\* word has at least 8 characters.
C9_Stated ==
    [][ (AtInSectionLine /\ ~TerminatorLine(lines[i])
           /\ DigitAndHyphen(lines[i]))
          => result' = result \o Contribution(lines[i]) ]_vars

\* C9 amended: the same for lines that do not contain the marker substring.
C9_Contribution ==
    [][ (AtInSectionLine /\ ~TerminatorLine(lines[i])
           /\ DigitAndHyphen(lines[i]) /\ ~Contains(lines[i], MARKER))
          => result' = result \o Contribution(lines[i]) ]_vars

\* "0000-0000-0000-5678 more text" has just contributed "5678", and a line
\* with a short first word before it has contributed nothing
C9_Witness ==
    /\ i = 4
    /\ Contains(lines[1], MARKER)
    /\ lines[2] = L_short
    /\ lines[3] = L_card_zeros
    /\ result = << <<"5", "6", "7", "8">> >>

(***************************************************************************)
(* C10                                                                     *)
(***************************************************************************)
\* C10: every token the parser returns consists of digit characters only.
C10_DigitTokens ==
    \A k \in 1..Len(result) :
        \A c \in 1..Len(result[k]) : result[k][c] \in Digits

(***************************************************************************)
(* C1                                                                      *)
(***************************************************************************)
\* how often the processing of a name was begun, by either thread
Runs(n) == batch_runs[n] + event_runs[n]

\* C1: in one watch session no file name is processed a second time.
C1_OncePerName == \A n \in EntryNames : Runs(n) <= 1

(***************************************************************************)
(* C2                                                                      *)
(***************************************************************************)
\* the observer thread takes a modified event from the queue in this step
TakesModified ==
    /\ opc = "idle"
    /\ queue # <<>>
    /\ Head(queue).event_type = "modified"
    /\ queue' = Tail(queue)

\* C2: a modified event for a name that is in processed_files triggers no
\* processing and leaves processed_files and the output files unchanged.
C2_OneShot ==
    [][ (TakesModified /\ PathName(Head(queue).src_path) \in processed_files)
          => /\ opc' = "idle"
             /\ processed_files' = processed_files
             /\ writes' = writes
             /\ event_runs' = event_runs
             /\ batch_runs' = batch_runs ]_vars

\* a.pdf arrived during the session and was processed by the handler, and a
\* modified event for it has then been ignored
C2_Witness ==
    /\ last.event = Event("modified", N_a)
    /\ ~last.triggered
    /\ opc = "idle"
    /\ N_a \in processed_files
    /\ N_a \notin seeded
    /\ event_runs[N_a] = 1
    /\ writes[N_a] = 1

(***************************************************************************)
(* C4                                                                      *)
(***************************************************************************)
\* C4: a name present at the start of the session is processed by the
\* start-up batch at most once and by no event.
C4_SeededOnce ==
    \A n \in seeded : batch_runs[n] <= 1 /\ event_runs[n] = 0

(***************************************************************************)
(* C5                                                                      *)
(***************************************************************************)
\* C5: the observer thread and the start-up batch never process the same
\* file name at the same time.
C5_NoOverlap ==
    ~(/\ mpc = "extract"
      /\ opc = "extract"
      /\ Head(pdf_files) = PathName(ocur))

(***************************************************************************)
(* C3                                                                      *)
(***************************************************************************)
\* the call of pdf_to_text has ended, by return or by an exception
BatchEnded == bpc \in {"returned", "aborted"}

\* C3: when the batch has ended, every document other than one whose own
\* handling raised has its output file.
C3_BatchIsolation ==
    BatchEnded =>
        \A d \in 1..Len(docs) : docs[d] \in failed \/ outputs[docs[d]].exists

(***************************************************************************)
(* C11                                                                     *)
(***************************************************************************)
\* a strategy is invoked in this step, after the primary one
InvokesLater(name) == calls' = Append(calls, name)

\* C11: pdfminer is invoked only right after the primary strategy and with
\* an empty/whitespace-only text (what a raise leaves, too); OCR is invoked
\* only if use_ocr is set, the text is empty/whitespace-only and the OCR
\* toolchain is there; so a text that is not blank is never replaced.
C11_StrategyGating ==
    [][ /\ InvokesLater("pdfminer")
            => (calls = <<"pymupdf">> /\ IsBlank(text) /\ pdfminer)
        /\ InvokesLater("ocr")
            => (use_ocr /\ IsBlank(text) /\ pytesseract
                  /\ calls \in {<<"pymupdf">>, <<"pymupdf", "pdfminer">>})
        /\ (~IsBlank(text) /\ bpc \in {"secondary", "ocr", "write"})
            => text' = text ]_vars

\* all three strategies have run for a document, in order, and the text the
\* last one returned is kept
C11_Witness ==
    /\ calls = <<"pymupdf", "pdfminer", "ocr">>
    /\ bpc = "write"
    /\ ~IsBlank(text)

(***************************************************************************)
(* C12                                                                     *)
(***************************************************************************)
\* C12: for an input that is neither a directory nor a PDF file the call
\* ends in the invalid-input error, with no document listed, no strategy
\* invoked and no output file written.
C12_InvalidInput ==
    batch_input = "other" =>
        /\ bpc \in {"resolve", "invalid"}
        /\ docs = <<>>
        /\ calls = <<>>
        /\ \A d \in 1..MaxDocs : ~outputs[d].exists

\* the ValueError has been raised
C12_Witness == batch_input = "other" /\ bpc = "invalid"

(***************************************************************************)
(* C13                                                                     *)
(***************************************************************************)
\* C13: an in-section line that contains a digit but no hyphen contributes
\* no token.
C13_NoHyphenNoToken ==
    [][ (AtInSectionLine
           /\ (\E k \in 1..Len(lines[i]) : lines[i][k] \in Digits)
           /\ (\A k \in 1..Len(lines[i]) : lines[i][k] # "-"))
          => result' = result ]_vars

\* "12345678" has been scanned in-section, the scan goes on, nothing was
\* contributed
C13_Witness ==
    /\ ppc = "scan"
    /\ i = 3
    /\ in_card_section
    /\ lines[2] = L_no_hyphen
    /\ result = <<>>

(***************************************************************************)
(* C15                                                                     *)
(***************************************************************************)
\* the word consists of hyphens and at least eight zeros
ZerosAndHyphens(w) ==
    /\ \A k \in 1..Len(w) : w[k] \in {"0", "-"}
    /\ Cardinality({k \in 1..Len(w) : w[k] = "0"}) >= 8

\* the list holds the empty token
HasEmptyToken(s) == \E k \in 1..Len(s) : s[k] = <<>>

\* C15: an in-section line that reaches the candidate check and qualifies,
\* and whose first word is made of hyphens and at least eight zeros,
\* contributes the empty token; an empty token in the result is written.
C15_EmptyToken ==
    [][ /\ (AtInSectionLine /\ ~Contains(lines[i], MARKER)
              /\ ~TerminatorLine(lines[i]) /\ DigitAndHyphen(lines[i])
              /\ ZerosAndHyphens(FirstWord(lines[i])))
            => result' = Append(result, <<>>)
        /\ (ppc' = "written" /\ HasEmptyToken(result'))
            => HasEmptyToken(unique_card_numbers') ]_vars

\* "0000-0000" after a card line: the empty token is the second token written
C15_Witness ==
    /\ ppc = "written"
    /\ Len(lines) >= 3
    /\ lines[2] = L_card
    /\ lines[3] = L_all_zero
    /\ unique_card_numbers = <<CleanCard(L_card), <<>> >>

(***************************************************************************)
(* C16                                                                     *)
(***************************************************************************)
\* C16: a line that contains the marker, wherever it is met, contributes no
\* token and does not stop the scan: the parser is in-section afterwards and
\* goes on with the next line.
C16_MarkerLines ==
    [][ (ppc = "scan" /\ i <= Len(lines) /\ Contains(lines[i], MARKER))
          => /\ result' = result
             /\ ppc' = "scan"
             /\ i' = i + 1
             /\ in_card_section' ]_vars

\* in-section, a marker line with "Invoice" and one with a card-like first
\* word have been passed, and the card line after them has contributed
C16_Witness ==
    /\ ppc = "scan"
    /\ i = 5
    /\ lines[1] = L_marker
    /\ lines[2] = L_marker_invoice
    /\ lines[3] = L_card_marker
    /\ lines[4] = L_card
    /\ result = <<CleanCard(L_card)>>

(***************************************************************************)
(* C14                                                                     *)
(***************************************************************************)
\* the start-up batch began its current document and did not finish it
BatchDocUnfinished ==
    /\ mpc # "extract"
    /\ pdf_files # <<>>
    /\ batch_runs[Head(pdf_files)] >= 1

\* C14 (its safety part): after Ctrl+C, once the watcher is Stopped the
\* observer delivers nothing and its thread has ended with no handler at
\* work, and the document the start-up batch was handling when the signal
\* arrived was not left unfinished.
C14_Cancellation ==
    interrupted =>
        /\ mpc = "stopped" => (~observing /\ opc = "exited")
        /\ ~BatchDocUnfinished

(***************************************************************************)
(* C17                                                                     *)
(***************************************************************************)
\* the observer thread takes an event of the given type from the queue
Takes(type) ==
    /\ opc = "idle"
    /\ queue # <<>>
    /\ Head(queue).event_type = type
    /\ queue' = Tail(queue)

\* C17: after construction a name enters processed_files only in the step in
\* which the handler's pdf_to_text returns (the output file is written); a
\* handler whose processing raised goes back to idle without adding the
\* name; and a modified event for a PDF file whose name is not in
\* processed_files goes on to process it.
C17_AddAfterSuccess ==
    [][ /\ (mpc # "main" /\ processed_files' # processed_files)
            => /\ opc = "extract"
               /\ opc' = "idle"
               /\ writes' = Incr(writes, PathName(ocur))
               /\ processed_files' = processed_files \cup {PathName(ocur)}
        /\ (opc \in {"settle", "extract"} /\ opc' = "idle" /\ writes' = writes)
            => processed_files' = processed_files
        /\ (Takes("modified") /\ ~Head(queue).is_directory
              /\ endswith(Head(queue).src_path, PDF_SUFFIX)
              /\ PathName(Head(queue).src_path) \notin processed_files)
            => (opc' = "settle" /\ ocur' = Head(queue).src_path) ]_vars

\* processing a.pdf raised in the handler, its name was not recorded, and a
\* later modified event for it has triggered the processing again
C17_Witness ==
    /\ last = [event |-> Event("modified", N_a), triggered |-> TRUE]
    /\ opc = "settle"
    /\ event_runs[N_a] = 1
    /\ batch_runs[N_a] = 0
    /\ writes[N_a] = 0
    /\ N_a \notin processed_files

(***************************************************************************)
(* C18                                                                     *)
(***************************************************************************)
\* the path does not end in ".pdf"
NotPdfPath(p) == Len(p) < 4 \/ SubSeq(p, Len(p) - 3, Len(p)) # PDF_SUFFIX

\* C18: a created or modified event for a directory or for a path that does
\* not end in ".pdf" triggers no processing and leaves processed_files and
\* the output files unchanged.
C18_OtherPathsIgnored ==
    [][ ((Takes("created") \/ Takes("modified"))
           /\ (Head(queue).is_directory \/ NotPdfPath(Head(queue).src_path)))
          => /\ opc' = "idle"
             /\ processed_files' = processed_files
             /\ writes' = writes
             /\ event_runs' = event_runs
             /\ batch_runs' = batch_runs ]_vars

\* a created event for the directory d.pdf has been ignored, with n.txt
\* present as well
C18_Witness ==
    /\ last = [event |-> Event("created", N_dir), triggered |-> FALSE]
    /\ opc = "idle"
    /\ N_txt \in entries
    /\ event_runs[N_dir] = 0

(***************************************************************************)
(* C19                                                                     *)
(***************************************************************************)
\* C19: with a file as input, a missing directory or no watchdog, watch mode
\* returns early: nothing is subscribed, processed or written.
C19_Refuses ==
    (watch_input # "dir" \/ ~watchdog) =>
        /\ mpc \in {"main", "returned"}
        /\ ~observing
        /\ processed_files = {}
        /\ batch_runs = Zero /\ event_runs = Zero /\ writes = Zero

(***************************************************************************)
(* C20                                                                     *)
(***************************************************************************)
\* C20: no step of a watch session removes a name from processed_files.
C20_Monotonic == [][processed_files \subseteq processed_files']_vars

\* processed_files holds the seeded a.pdf and b.pdf, added by the handler
C20_Witness ==
    /\ N_a \in seeded
    /\ N_b \notin seeded
    /\ {N_a, N_b} \subseteq processed_files
====
